---- MODULE Spec2Model ----
(***************************************************************************)
(* A model of pykbart's KBART record (class Kbart) and of its two          *)
(* formatters (classes Holdings and Embargo), src/kbart/kbart.py.          *)
(*                                                                         *)
(* Python strings are modelled as sequences of one-character strings, so   *)
(* that formatting, joining, regular-expression matching and int() are     *)
(* computed character by character.  Field names are only ever compared,   *)
(* so they stay atomic strings.  A call's outcome is a record              *)
(* [exc, val]: exc = "" for a normal return of val, otherwise the name of  *)
(* the exception raised.                                                   *)
(***************************************************************************)
EXTENDS Integers, Sequences, FiniteSets, TLC

VARIABLES pc, provider, rp, data, fields, kbart_data, nsets, op, result

vars == <<pc, provider, rp, data, fields, kbart_data, nsets, op, result>>

recordVars == <<pc, provider, rp, data, fields, kbart_data, nsets>>

(***************************************************************************)
(* Bounds of the model.                                                    *)
(***************************************************************************)
\* longest input row handed to the constructor
MaxData == 16
\* number of assignments (item or property) made to one record
MaxSets == 1
\* longest string handed to the embargo decoder
MaxEmbargoLen == 4
\* longest string in the date positions handed to length_of_coverage
MaxYearLen == 2

(***************************************************************************)
(* Strings and call outcomes.                                              *)
(***************************************************************************)
E == <<>>

Ret(v) == [exc |-> "", val |-> v]

Raise(e) == [exc |-> e, val |-> <<>>]

NoOp == [name |-> "", key |-> "", arg |-> <<>>]

Min(a, b) == IF a < b THEN a ELSE b

\* Python's s[i:]  (0-based i)
From(s, i) == SubSeq(s, i + 1, Len(s))

\* Python's s[:j]
Upto(s, j) == SubSeq(s, 1, Min(j, Len(s)))

RECURSIVE Flatten(_)
Flatten(ss) == IF ss = <<>> THEN <<>> ELSE Head(ss) \o Flatten(Tail(ss))

\* all strings of at most n characters over the alphabet chars
Strings(chars, n) == UNION {[1..k -> chars] : k \in 0..n}

(***************************************************************************)
(* _format_strings (the string-join helper)                                *)
(***************************************************************************)
format_strings(the_string, prefix, suffix) ==
    IF the_string # E THEN prefix \o the_string \o suffix ELSE E

(***************************************************************************)
(* class Holdings                                                          *)
(***************************************************************************)
S_Vol == <<"V", "o", "l", ":", " ">>

S_Issue == <<"I", "s", "s", "u", "e", ":", " ">>

S_CommaSpace == <<",", " ">>

S_Dash == <<" ", "-", " ">>

S_present == <<"p", "r", "e", "s", "e", "n", "t">>

S_NoHoldings ==
    <<"N", "o", " ", "h", "o", "l", "d", "i", "n", "g", "s", " ",
      "p", "r", "e", "s", "e", "n", "t">>

\* sep.join(parts)
RECURSIVE Join(_, _)
Join(sep, parts) ==
    IF parts = <<>> THEN E
    ELSE IF Len(parts) = 1 THEN parts[1]
    ELSE parts[1] \o sep \o Join(sep, Tail(parts))

\* [x for x in holdings if x]
Truthy(xs) == SelectSeq(xs, LAMBDA x : x # E)

\* any(holdings)
AnyTrue(xs) == \E i \in 1..Len(xs) : xs[i] # E

\* (variant: empty parts are formatted and joined like the others)
create_holdings_string_keep_empty(holdings) ==
    IF Len(holdings) < 3
    THEN [exc |-> "IndexError", val |-> E, list |-> holdings]
    ELSE LET h1 == [holdings EXCEPT ![2] = S_Vol \o holdings[2]]
             h2 == [h1 EXCEPT ![3] = S_Issue \o h1[3]]
         IN  [exc |-> "", val |-> Join(S_CommaSpace, h2), list |-> h2]

\* Holdings._create_holdings_string: the two item assignments write into the
\* list it was handed (list |-> that list afterwards); reading holdings[1] or
\* holdings[2] of a shorter list raises IndexError.
create_holdings_string(holdings) ==
    IF Len(holdings) < 2
    THEN [exc |-> "IndexError", val |-> E, list |-> holdings]
    ELSE LET h1 == [holdings EXCEPT ![2] = format_strings(holdings[2], S_Vol, E)]
         IN  IF Len(h1) < 3
             THEN [exc |-> "IndexError", val |-> E, list |-> h1]
             ELSE LET h2 == [h1 EXCEPT ![3] = format_strings(h1[3], S_Issue, E)]
                  IN  [exc |-> "", val |-> Join(S_CommaSpace, Truthy(h2)),
                       list |-> h2]

\* Holdings.pretty_print
Holdings_pretty_print(holdings) ==
    IF AnyTrue(holdings)
    THEN LET first == Upto(holdings, 3)
             last == From(holdings, 3)
             first_holding == create_holdings_string(first)
             last_holding == create_holdings_string(last)
         IN  IF first_holding.exc # "" THEN Raise(first_holding.exc)
             ELSE IF last_holding.exc # "" THEN Raise(last_holding.exc)
             ELSE Ret(first_holding.val \o S_Dash \o
                      (IF last_holding.val = E THEN S_present
                                               ELSE last_holding.val))
    ELSE Ret(S_NoHoldings)

(***************************************************************************)
(* int(str), as Holdings.length_of_coverage uses it: surrounding           *)
(* whitespace is stripped, one sign is allowed, what is left must be       *)
(* decimal digits.  <<>> stands for ValueError, <<n>> for the value n.     *)
(***************************************************************************)
Digits == {"0", "1", "2", "3", "4", "5", "6", "7", "8", "9"}

DigitVal(c) ==
    CASE c = "0" -> 0 [] c = "1" -> 1 [] c = "2" -> 2 [] c = "3" -> 3
      [] c = "4" -> 4 [] c = "5" -> 5 [] c = "6" -> 6 [] c = "7" -> 7
      [] c = "8" -> 8 [] c = "9" -> 9

RECURSIVE LStrip(_)
LStrip(s) == IF s # E /\ Head(s) = " " THEN LStrip(Tail(s)) ELSE s

RECURSIVE RStrip(_)
RStrip(s) ==
    IF s # E /\ s[Len(s)] = " " THEN RStrip(SubSeq(s, 1, Len(s) - 1)) ELSE s

RECURSIVE DecimalValue(_)
DecimalValue(s) ==
    IF s = E THEN 0
    ELSE 10 * DecimalValue(SubSeq(s, 1, Len(s) - 1)) + DigitVal(s[Len(s)])

AllDigits(s) == s # E /\ \A i \in 1..Len(s) : s[i] \in Digits

int(s) ==
    LET t == RStrip(LStrip(s))
        signed == t # E /\ t[1] \in {"+", "-"}
        body == IF signed THEN Tail(t) ELSE t
    IN  IF ~AllDigits(body) THEN <<>>
        ELSE IF signed /\ t[1] = "-" THEN <<0 - DecimalValue(body)>>
        ELSE <<DecimalValue(body)>>

\* (variant: no second attempt with the current year)
length_of_coverage_no_fallback(holdings, this_year) ==
    LET first_year == holdings[1]
        last_year == holdings[4]
    IN  IF int(last_year) # <<>> /\ int(first_year) # <<>>
        THEN Ret(int(last_year)[1] - int(first_year)[1])
        ELSE Raise("IncompleteDateInformation")

\* Holdings.length_of_coverage; this_year is datetime.datetime.now().year
length_of_coverage(holdings, this_year) ==
    LET first_year == holdings[1]
        last_year == holdings[4]
    IN  IF int(last_year) # <<>> /\ int(first_year) # <<>>
        THEN Ret(int(last_year)[1] - int(first_year)[1])
        ELSE \* except ValueError:
             IF int(first_year) # <<>>
             THEN Ret(this_year - int(first_year)[1])
             ELSE \* except ValueError:
                  Raise("IncompleteDateInformation")

(***************************************************************************)
(* class Embargo                                                           *)
(***************************************************************************)
\* kbart.constants.EMBARGO_CODES_TO_STRINGS: the phrase templates of the two
\* embargo types ("{0}" and "{1}" are str.format's two fields) and the three
\* unit phrases.
EMBARGO_CODES_TO_STRINGS ==
    ("R" :> <<"W", "i", "t", "h", "i", "n", " ", "t", "h", "e", " ",
              "l", "a", "s", "t", " ", "{0}", " ", "{1}", " ", "a", "g", "o">>)
    @@ ("P" :> <<"U", "p", " ", "t", "o", " ", "{0}", " ", "{1}", " ",
                 "a", "g", "o">>)
    @@ ("D" :> <<"d", "a", "y", "(", "s", ")">>)
    @@ ("M" :> <<"m", "o", "n", "t", "h", "(", "s", ")">>)
    @@ ("Y" :> <<"y", "e", "a", "r", "(", "s", ")">>)

\* template.format(a0, a1)
Format(template, a0, a1) ==
    Flatten([i \in 1..Len(template) |->
                IF template[i] = "{0}" THEN a0
                ELSE IF template[i] = "{1}" THEN a1
                ELSE <<template[i]>>])

\* the number of characters of s from position i (1-based) on that \d matches
RECURSIVE DigitRun(_, _)
DigitRun(s, i) ==
    IF i <= Len(s) /\ s[i] \in Digits THEN 1 + DigitRun(s, i + 1) ELSE 0

SetMax(S) == CHOOSE x \in S : \A y \in S : y <= x

\* (variant: re.search, which tries every position)
pattern_search(embargo) ==
    LET starts == {p \in 1..Len(embargo) :
                     /\ embargo[p] \in {"R", "P"}
                     /\ \E n \in 1..DigitRun(embargo, p + 1) :
                           /\ p + n + 1 <= Len(embargo)
                           /\ embargo[p + n + 1] \in {"D", "M", "Y"}}
    IN  IF starts = {} THEN <<>>
        ELSE LET p == CHOOSE q \in starts : \A r \in starts : q <= r
                 n == DigitRun(embargo, p + 1)
             IN  <<[type |-> embargo[p],
                    length |-> SubSeq(embargo, p + 1, p + n),
                    unit |-> embargo[p + n + 1]]>>

\* (variant: \d in place of \d+)
pattern_match_one_digit(embargo) ==
    IF /\ Len(embargo) >= 3
       /\ embargo[1] \in {"R", "P"}
       /\ embargo[2] \in Digits
       /\ embargo[3] \in {"D", "M", "Y"}
    THEN <<[type |-> embargo[1], length |-> <<embargo[2]>>,
            unit |-> embargo[3]]>>
    ELSE <<>>

\* Embargo.pattern.match(embargo): (?P<type>R|P)(?P<length>\d+)(?P<unit>D|M|Y)
\* tried at position 0 only; \d+ takes the longest run of digits and gives
\* characters back until a unit follows.  <<>> is None, <<m>> a match whose
\* groupdict() is m.
pattern_match(embargo) ==
    IF Len(embargo) >= 1 /\ embargo[1] \in {"R", "P"}
    THEN LET run == DigitRun(embargo, 2)
             stops == {n \in 1..run :
                         /\ n + 2 <= Len(embargo)
                         /\ embargo[n + 2] \in {"D", "M", "Y"}}
         IN  IF stops = {} THEN <<>>
             ELSE LET n == SetMax(stops)
                  IN  <<[type |-> embargo[1],
                         length |-> SubSeq(embargo, 2, n + 1),
                         unit |-> embargo[n + 2]]>>
    ELSE <<>>

\* Embargo._embargo_as_dict: None.groupdict() is the AttributeError that
\* becomes UnknownEmbargoFormat; the dict of an empty input is {}, modelled
\* by the function with the empty domain.
embargo_as_dict(embargo) ==
    IF embargo # E
    THEN LET embargo_parts == pattern_match(embargo)
         IN  IF embargo_parts = <<>> THEN Raise("UnknownEmbargoFormat")
             ELSE Ret(embargo_parts[1])
    ELSE Ret(<<>>)

\* Embargo.pretty_print: a KeyError of any of the three lookups returns ''
Embargo_pretty_print(embargo) ==
    LET embargo_parts == embargo_as_dict(embargo)
    IN  IF embargo_parts.exc # "" THEN Raise(embargo_parts.exc)
        ELSE LET parts == embargo_parts.val
                 table == EMBARGO_CODES_TO_STRINGS
             IN  IF /\ "type" \in DOMAIN parts
                    /\ parts["type"] \in DOMAIN table
                    /\ "length" \in DOMAIN parts
                    /\ "unit" \in DOMAIN parts
                    /\ parts["unit"] \in DOMAIN table
                 THEN Ret(Format(table[parts["type"]], parts["length"],
                                 table[parts["unit"]]))
                 ELSE Ret(E)

\* Embargo.check_embargo_format: whether the pattern matches; never raises
check_embargo_format(embargo) == Ret(pattern_match(embargo) # <<>>)

(***************************************************************************)
(* kbart.constants: the schema tables                                      *)
(***************************************************************************)
RP1_FIELDS ==
    <<"publication_title", "print_identifier", "online_identifier",
      "date_first_issue_online", "num_first_vol_online",
      "num_first_issue_online", "date_last_issue_online",
      "num_last_vol_online", "num_last_issue_online", "title_url",
      "first_author", "title_id", "embargo_info", "coverage_depth",
      "coverage_notes">>

RP2_FIELDS ==
    <<"notes", "publisher_name", "publication_type",
      "date_monograph_published_print", "date_monograph_published_online",
      "monograph_volume", "monograph_edition", "first_editor",
      "parent_publication_title_id", "preceding_publication_title_id",
      "access_type">>

PROVIDER_FIELDS ==
    "oclc" :> <<"oclc_collection_name", "oclc_collection_id", "oclc_entry_id",
                "oclc_linkscheme", "oclc_number", "ACTION">>

(***************************************************************************)
(* collections.OrderedDict: a sequence of entries [k, v] in insertion      *)
(* order, no key twice.                                                    *)
(***************************************************************************)
Keys(od) == [i \in 1..Len(od) |-> od[i].k]

Values(od) == [i \in 1..Len(od) |-> od[i].v]

HasKey(od, key) == \E i \in 1..Len(od) : od[i].k = key

IndexOf(od, key) == CHOOSE i \in 1..Len(od) : od[i].k = key

\* od[key]; only where HasKey(od, key)
Lookup(od, key) == od[IndexOf(od, key)].v

\* od[key] = value: an existing key keeps its place, a new key goes last
OD_setitem(od, key, value) ==
    IF HasKey(od, key)
    THEN [od EXCEPT ![IndexOf(od, key)] = [k |-> key, v |-> value]]
    ELSE Append(od, [k |-> key, v |-> value])

\* OrderedDict(pairs)
RECURSIVE OD_from_pairs(_)
OD_from_pairs(pairs) ==
    IF pairs = <<>> THEN <<>>
    ELSE LET last == pairs[Len(pairs)]
         IN  OD_setitem(OD_from_pairs(SubSeq(pairs, 1, Len(pairs) - 1)),
                        last[1], last[2])

Max(a, b) == IF a > b THEN a ELSE b

\* (variant: zip, which stops at the shorter of the two)
zip_shortest(the_fields, the_data) ==
    [i \in 1..Min(Len(the_fields), Len(the_data)) |->
        <<the_fields[i], the_data[i]>>]

\* six.moves.zip_longest(fields, data, fillvalue=''): as long as the longer
\* of the two; the fill value '' stands in for a missing value and for a
\* missing field name alike.
zip_longest(the_fields, the_data) ==
    [i \in 1..Max(Len(the_fields), Len(the_data)) |->
        <<IF i <= Len(the_fields) THEN the_fields[i] ELSE "",
          IF i <= Len(the_data) THEN the_data[i] ELSE E>>]

(***************************************************************************)
(* class Kbart                                                             *)
(***************************************************************************)
\* Kbart._create_fields; the_provider is <<>> for None, <<name>> otherwise
\* (variant: the provider is looked up before the version is checked)
create_fields_provider_first(the_rp, the_provider) ==
    LET rp_fields == IF the_rp = 2 THEN RP1_FIELDS \o RP2_FIELDS
                                   ELSE RP1_FIELDS
    IN  IF the_provider # <<>> /\ the_provider[1] \notin DOMAIN PROVIDER_FIELDS
        THEN Raise("ProviderNotFound")
        ELSE IF the_rp # 2 /\ the_rp # 1 THEN Raise("InvalidRP")
        ELSE IF the_provider # <<>>
        THEN Ret(rp_fields \o PROVIDER_FIELDS[the_provider[1]])
        ELSE Ret(rp_fields)

\* (variant: a provider missing from the table adds no fields)
create_fields_skip_unknown_provider(the_rp, the_provider) ==
    LET rp_fields == IF the_rp = 2 THEN RP1_FIELDS \o RP2_FIELDS
                                   ELSE RP1_FIELDS
    IN  IF the_rp # 2 /\ the_rp # 1 THEN Raise("InvalidRP")
        ELSE IF the_provider # <<>> /\ the_provider[1] \in DOMAIN PROVIDER_FIELDS
        THEN Ret(rp_fields \o PROVIDER_FIELDS[the_provider[1]])
        ELSE Ret(rp_fields)

create_fields(the_rp, the_provider) ==
    LET rp_fields == IF the_rp = 2 THEN RP1_FIELDS \o RP2_FIELDS
                                   ELSE RP1_FIELDS
    IN  IF the_rp # 2 /\ the_rp # 1 THEN Raise("InvalidRP")
        ELSE IF the_provider # <<>>
        THEN IF the_provider[1] \in DOMAIN PROVIDER_FIELDS
             THEN Ret(rp_fields \o PROVIDER_FIELDS[the_provider[1]])
             ELSE Raise("ProviderNotFound")
        ELSE Ret(rp_fields)

\* Kbart.__init__, the choice of self.fields: an explicit sequence when it is
\* truthy (<<>> stands for None and for an empty sequence alike)
init_fields(the_rp, the_provider, the_fields) ==
    IF the_fields # <<>> THEN Ret(the_fields)
    ELSE create_fields(the_rp, the_provider)

\* Kbart.__init__, self._kbart_data
init_kbart_data(the_fields, the_data) ==
    OD_from_pairs(zip_longest(the_fields, the_data))

\* Kbart.__getitem__
getitem(od, key) ==
    IF HasKey(od, key) THEN Ret(Lookup(od, key)) ELSE Raise("KeyError")

\* Kbart.__setitem__ and the property setters: what _kbart_data becomes
setitem(od, key, value) == OD_setitem(od, key, value)

\* Kbart.__len__
len(od) == Ret(Len(od))

\* Kbart.get_fields(*args)
get_fields(od, args) ==
    IF args = <<>> THEN Ret(Values(od))
    ELSE LET present == SelectSeq(args, LAMBDA x : HasKey(od, x))
         IN  Ret([i \in 1..Len(present) |-> Lookup(od, present[i])])

\* Kbart.holdings: list(self._kbart_data.values())[3:9]
holdings(od) == From(Upto(Values(od), 9), 3)

\* Kbart.serial_holdings_pp
serial_holdings_pp(od) == Holdings_pretty_print(holdings(od))

\* Kbart.embargo_pp: self.embargo is self._kbart_data['embargo_info']
embargo_pp(od) ==
    IF HasKey(od, "embargo_info")
    THEN Embargo_pretty_print(Lookup(od, "embargo_info"))
    ELSE Raise("KeyError")

\* (variant: the property hands out the stored values themselves)
kbart_data_written_through(od) ==
    LET first == create_holdings_string(Upto(holdings(od), 3)).list
        last == create_holdings_string(From(holdings(od), 3)).list
        written == first \o last
    IN  IF AnyTrue(holdings(od))
        THEN [i \in 1..Len(od) |->
                IF i > 3 /\ i - 3 <= Len(written)
                THEN [k |-> od[i].k, v |-> written[i - 3]]
                ELSE od[i]]
        ELSE od

\* _kbart_data after serial_holdings_pp: list(...)[3:9] is a new list and
\* holdings[:3], holdings[3:] are new lists again, so the formatter's
\* assignments to holdings[1] and holdings[2] reach neither the mapping nor
\* the list the property returned.
kbart_data_after_holdings_pp(od) == od

(***************************************************************************)
(* Inputs.                                                                 *)
(***************************************************************************)
S_2015 == <<"2", "0", "1", "5">>

S_2016 == <<"2", "0", "1", "6">>

S_P1M == <<"P", "1", "M">>

S_Z32L == <<"Z", "3", "2", "L">>

\* a full row: every position holds a value, no two neighbours the same
RowA(i) ==
    CASE i = 1 -> <<"J">>
      [] i = 2 -> <<"1", "-", "2">>
      [] i = 3 -> <<"3", "-", "4">>
      [] i = 4 -> S_2015
      [] i = 5 -> <<"1">>
      [] i = 6 -> <<"2">>
      [] i = 7 -> S_2016
      [] i = 8 -> <<"3">>
      [] i = 9 -> <<"4">>
      [] i = 10 -> <<"u">>
      [] i = 13 -> <<"R", "2", "Y">>
      [] OTHER -> IF i % 2 = 0 THEN <<"e">> ELSE <<"o">>

\* a sparse row, as a title held "to present" with no embargo has it
RowB(i) ==
    CASE i = 1 -> <<"K">>
      [] i = 4 -> S_2015
      [] i = 6 -> <<"1">>
      [] i = 17 -> <<"P">>
      [] OTHER -> E

\* the rows handed to the constructor: the first k values of the full row,
\* and the sparse row
DataInputs ==
    {[i \in 1..k |-> RowA(i)] : k \in 0..MaxData}
    \cup {[i \in 1..MaxData |-> RowB(i)]}

\* provider: None, a provider of the table, a provider not in it
ProviderInputs == {<<>>, <<"oclc">>, <<"Myself">>}

RPInputs == {1, 2, 3}

\* fields: None, and two header rows a reader may pass on
FieldsInputs ==
    {<<>>,
     <<"publication_title", "embargo_info">>,
     <<"publication_title", "print_identifier", "online_identifier",
       "date_first_issue_online", "num_first_vol_online">>}

\* the names item assignment is tried with, and the named properties
\* (title, print_id, e_id, publisher) that have a setter
SetItemKeys == {"num_first_vol_online", "embargo_info", "nonesuch"}

PropertyFields ==
    {"publication_title", "print_identifier", "online_identifier",
     "publisher_name"}

SetValues == {E, S_P1M}

PropertyValues == {<<"T">>}

GetItemKeys == {"publication_title", "num_first_vol_online", "nonesuch"}

GetFieldsArgs ==
    {<<>>, <<"embargo_info", "nonesuch", "publication_title">>}

HoldingsValues == {E, S_2015, <<"1">>}

\* the lists handed to Holdings.pretty_print: six values, or fewer
HoldingsInputs == UNION {[1..k -> HoldingsValues] : k \in 0..6}

YearChars == {"1", "9", "-", " "}

\* the six-value lists handed to Holdings.length_of_coverage
CoverageInputs ==
    {<<a, E, <<"1">>, b, E, E>> :
        a \in Strings(YearChars, MaxYearLen) \cup {S_2015},
        b \in Strings(YearChars, MaxYearLen) \cup {S_2016}}

ThisYears == {2026, 2027}

EmbargoChars == {"R", "P", "Z", "1", "2", "3", "D", "M", "Y", "L"}

EmbargoInputs == Strings(EmbargoChars, MaxEmbargoLen)

(***************************************************************************)
(* The record's life: no object yet, then Kbart(...) either raises or      *)
(* leaves a record that is read and assigned to.                           *)
(***************************************************************************)
Init ==
    /\ pc = "start"
    /\ provider = <<>>
    /\ rp = 0
    /\ data = <<>>
    /\ fields = <<>>
    /\ kbart_data = <<>>
    /\ nsets = 0
    /\ op = NoOp
    /\ result = Ret(<<>>)

Call(name, key, arg) == [name |-> name, key |-> key, arg |-> arg]

\* Kbart(data, provider, rp, fields)
Construct ==
    /\ pc = "start"
    /\ \E d \in DataInputs, p \in ProviderInputs, r \in RPInputs,
          f \in FieldsInputs :
          LET the_fields == init_fields(r, p, f)
          IN  /\ op' = Call("Kbart", "",
                            [data |-> d, provider |-> p, rp |-> r,
                             fields |-> f])
              /\ IF the_fields.exc # ""
                 THEN /\ pc' = "failed"
                      /\ result' = Raise(the_fields.exc)
                      /\ UNCHANGED <<provider, rp, data, fields, kbart_data>>
                 ELSE /\ pc' = "live"
                      /\ provider' = p
                      /\ rp' = r
                      /\ data' = d
                      /\ fields' = the_fields.val
                      /\ kbart_data' = init_kbart_data(the_fields.val, d)
                      /\ result' = Ret(<<>>)
    /\ UNCHANGED nsets

\* record[key] = value
SetItem ==
    /\ pc = "live"
    /\ nsets < MaxSets
    /\ \E key \in SetItemKeys, value \in SetValues :
          /\ op' = Call("setitem", key, value)
          /\ kbart_data' = setitem(kbart_data, key, value)
    /\ nsets' = nsets + 1
    /\ result' = Ret(<<>>)
    /\ UNCHANGED <<pc, provider, rp, data, fields>>

\* record.title = value, and the same for print_id, e_id and publisher
SetProperty ==
    /\ pc = "live"
    /\ nsets < MaxSets
    /\ \E key \in PropertyFields, value \in PropertyValues :
          /\ op' = Call("set_property", key, value)
          /\ kbart_data' = setitem(kbart_data, key, value)
    /\ nsets' = nsets + 1
    /\ result' = Ret(<<>>)
    /\ UNCHANGED <<pc, provider, rp, data, fields>>

\* record[key]
GetItem ==
    /\ pc = "live"
    /\ \E key \in GetItemKeys :
          /\ op' = Call("getitem", key, <<>>)
          /\ result' = getitem(kbart_data, key)
    /\ UNCHANGED recordVars

\* record.get_fields(*args)
GetFields ==
    /\ pc = "live"
    /\ \E args \in GetFieldsArgs :
          /\ op' = Call("get_fields", "", args)
          /\ result' = get_fields(kbart_data, args)
    /\ UNCHANGED recordVars

\* len(record)
Length ==
    /\ pc = "live"
    /\ op' = Call("len", "", <<>>)
    /\ result' = len(kbart_data)
    /\ UNCHANGED recordVars

\* record.serial_holdings_pp()
HoldingsPrettyPrint ==
    /\ pc = "live"
    /\ op' = Call("serial_holdings_pp", "", <<>>)
    /\ result' = serial_holdings_pp(kbart_data)
    /\ kbart_data' = kbart_data_after_holdings_pp(kbart_data)
    /\ UNCHANGED <<pc, provider, rp, data, fields, nsets>>

\* record.embargo_pp()
EmbargoPrettyPrint ==
    /\ pc = "live"
    /\ op' = Call("embargo_pp", "", <<>>)
    /\ result' = embargo_pp(kbart_data)
    /\ UNCHANGED recordVars

Next ==
    \/ Construct
    \/ SetItem
    \/ SetProperty
    \/ GetItem
    \/ GetFields
    \/ Length
    \/ HoldingsPrettyPrint
    \/ EmbargoPrettyPrint

Spec == Init /\ [][Next]_vars

(***************************************************************************)
(* The formatters called on their own (they are static methods): one call  *)
(* on one input.                                                           *)
(***************************************************************************)
HoldingsPrettyPrintCall ==
    /\ pc = "start"
    /\ pc' = "called"
    /\ \E h \in HoldingsInputs :
          /\ op' = Call("Holdings.pretty_print", "", h)
          /\ result' = Holdings_pretty_print(h)
    /\ UNCHANGED <<provider, rp, data, fields, kbart_data, nsets>>

LengthOfCoverageCall ==
    /\ pc = "start"
    /\ pc' = "called"
    /\ \E h \in CoverageInputs, this_year \in ThisYears :
          /\ op' = Call("Holdings.length_of_coverage", "",
                        [holdings |-> h, this_year |-> this_year])
          /\ result' = length_of_coverage(h, this_year)
    /\ UNCHANGED <<provider, rp, data, fields, kbart_data, nsets>>

EmbargoPrettyPrintCall ==
    /\ pc = "start"
    /\ pc' = "called"
    /\ \E e \in EmbargoInputs :
          /\ op' = Call("Embargo.pretty_print", "", e)
          /\ result' = Embargo_pretty_print(e)
    /\ UNCHANGED <<provider, rp, data, fields, kbart_data, nsets>>

CheckEmbargoFormatCall ==
    /\ pc = "start"
    /\ pc' = "called"
    /\ \E e \in EmbargoInputs :
          /\ op' = Call("Embargo.check_embargo_format", "", e)
          /\ result' = check_embargo_format(e)
    /\ UNCHANGED <<provider, rp, data, fields, kbart_data, nsets>>

NextFmt ==
    \/ HoldingsPrettyPrintCall
    \/ LengthOfCoverageCall
    \/ EmbargoPrettyPrintCall
    \/ CheckEmbargoFormatCall

SpecFmt == Init /\ [][NextFmt]_vars

(***************************************************************************)
(* The claims.                                                             *)
(***************************************************************************)
Constructed == op.name = "Kbart"

IsSet(name) == name \in {"setitem", "set_property"}

IsReader(name) ==
    name \in {"getitem", "get_fields", "len", "serial_holdings_pp",
              "embargo_pp"}

\* C1, for the record as the constructor leaves it: whatever the number of
\* values it was built from (fewer than, as many as or more than the
\* fields), the keys of the mapping are exactly the record's field sequence,
\* in order, and len() is the number of fields: values beyond the last field
\* add no entry.  (That assignments keep the keys is what C2 states.)
C1_KeysAreTheFields ==
    (pc = "live" /\ nsets = 0) =>
        /\ Keys(kbart_data) = fields
        /\ len(kbart_data).val = Len(fields)

\* C2: an item assignment under a name that is no key of the mapping fails
\* with a lookup error and leaves the mapping as it was.
C2_SetUnknownFails ==
    [][(pc = "live" /\ op'.name = "setitem"
          /\ ~HasKey(kbart_data, op'.key))
       => (result'.exc = "KeyError" /\ kbart_data' = kbart_data)]_vars

\* C3 as claimed: construction with an RP version other than 1 and 2 fails
\* with InvalidRP whatever the other arguments are.
C3_InvalidRPAlwaysFails ==
    (Constructed /\ op.arg.rp \notin {1, 2})
    => (pc = "failed" /\ result.exc = "InvalidRP")

\* C3 as amended: construction with an RP version other than 1 and 2 and
\* without explicit fields fails with InvalidRP, whatever the values and the
\* provider (known, unknown or absent) are, and leaves no record.
C3_InvalidRPFailsWithoutFields ==
    (Constructed /\ op.arg.rp \notin {1, 2} /\ op.arg.fields = <<>>)
    => (pc = "failed" /\ result.exc = "InvalidRP" /\ kbart_data = <<>>)

C3_Witness ==
    /\ Constructed
    /\ op.arg.rp = 3
    /\ op.arg.fields = <<>>
    /\ op.arg.provider = <<"Myself">>
    /\ op.arg.data # <<>>
    /\ pc = "failed"
    /\ result.exc = "InvalidRP"

Last(xs) == xs[Len(xs)]

Padded(the_data, n) ==
    [i \in 1..n |-> IF i <= Len(the_data) THEN the_data[i] ELSE E]

\* C5: a record built from k values, k at most the number n of fields, and
\* not assigned to since, holds the i-th value under the i-th field for
\* i <= k and the empty string under the others; get_fields() returns these
\* n values in field order, which for k = n are the input values.
C5_PositionalValues ==
    (pc = "live" /\ nsets = 0 /\ Len(data) <= Len(fields))
    => /\ \A i \in 1..Len(fields) :
            getitem(kbart_data, fields[i])
              = Ret(IF i <= Len(data) THEN data[i] ELSE E)
       /\ (op.name = "get_fields" /\ op.arg = <<>>)
            => /\ result = Ret(Padded(data, Len(fields)))
               /\ Len(data) = Len(fields) => result.val = data

C5_Witness ==
    /\ pc = "live"
    /\ nsets = 0
    /\ op.name = "get_fields"
    /\ op.arg = <<>>
    /\ Len(fields) = 15
    /\ Len(data) = 15
    /\ result.val = data
    /\ result.val[4] = S_2015

\* the non-empty parts of one triple: the date as it is, the volume and the
\* issue behind their labels
TripleParts(date, vol, issue) ==
    (IF date = E THEN <<>> ELSE <<date>>)
    \o (IF vol = E THEN <<>> ELSE <<S_Vol \o vol>>)
    \o (IF issue = E THEN <<>> ELSE <<S_Issue \o issue>>)

CommaSeparated(parts) ==
    Flatten([k \in 1..Len(parts) |->
                IF k = 1 THEN parts[k] ELSE S_CommaSpace \o parts[k]])

\* what the claim says pretty-print returns for six values
ExpectedHoldings(h) ==
    LET first == CommaSeparated(TripleParts(h[1], h[2], h[3]))
        last == CommaSeparated(TripleParts(h[4], h[5], h[6]))
    IN  IF \A i \in 1..6 : h[i] = E THEN S_NoHoldings
        ELSE first \o S_Dash \o (IF last = E THEN S_present ELSE last)

\* C6: for six strings, Holdings.pretty_print returns 'No holdings present'
\* when all are empty, and otherwise '<first> - <last>', each side the
\* ', '-join of the non-empty parts of its triple (date, 'Vol: <vol>',
\* 'Issue: <issue>'), an empty <last> replaced by 'present'.
C6_HoldingsPrettyPrint ==
    (op.name = "Holdings.pretty_print" /\ Len(op.arg) = 6)
    => result = Ret(ExpectedHoldings(op.arg))

C6_Witness ==
    /\ op.name = "Holdings.pretty_print"
    /\ op.arg = <<S_2015, E, <<"1">>, E, E, E>>
    /\ result.val = S_2015 \o <<",", " ">> \o S_Issue \o <<"1">>
                      \o <<" ", "-", " ">> \o S_present

\* s starts with a type letter, n digits and a unit letter
HasShape(s, n) ==
    /\ n >= 1
    /\ Len(s) >= n + 2
    /\ s[1] \in {"R", "P"}
    /\ \A i \in 2..(n + 1) : s[i] \in Digits
    /\ s[n + 2] \in {"D", "M", "Y"}

Matches(s) == \E n \in 1..Len(s) : HasShape(s, n)

TypePhrase(c) ==
    IF c = "P" THEN <<"U", "p", " ", "t", "o">>
    ELSE <<"W", "i", "t", "h", "i", "n", " ", "t", "h", "e", " ",
           "l", "a", "s", "t">>

UnitPhrase(c) ==
    CASE c = "D" -> <<"d", "a", "y", "(", "s", ")">>
      [] c = "M" -> <<"m", "o", "n", "t", "h", "(", "s", ")">>
      [] c = "Y" -> <<"y", "e", "a", "r", "(", "s", ")">>

S_UpTo1Month ==
    <<"U", "p", " ", "t", "o", " ", "1", " ", "m", "o", "n", "t", "h",
      "(", "s", ")", " ", "a", "g", "o">>

\* C7: Embargo.pretty_print returns '' for the empty string, raises
\* UnknownEmbargoFormat for a non-empty string that does not start with
\* <R|P><digits><D|M|Y>, and otherwise returns '<type phrase> <digits>
\* <unit phrase> ago'; 'P1M' gives 'Up to 1 month(s) ago'.
C7_EmbargoPrettyPrint ==
    op.name = "Embargo.pretty_print"
    => LET s == op.arg
       IN  /\ s = E => result = Ret(E)
           /\ (s # E /\ ~Matches(s)) => result = Raise("UnknownEmbargoFormat")
           /\ \A n \in 1..Len(s) :
                 HasShape(s, n)
                 => result = Ret(TypePhrase(s[1]) \o <<" ">>
                                 \o SubSeq(s, 2, n + 1) \o <<" ">>
                                 \o UnitPhrase(s[n + 2])
                                 \o <<" ", "a", "g", "o">>)
           /\ s = S_P1M => result.val = S_UpTo1Month

C7_Witness ==
    /\ op.name = "Embargo.pretty_print"
    /\ op.arg = <<"R", "1", "2", "Y">>
    /\ result = Ret(<<"W", "i", "t", "h", "i", "n", " ", "t", "h", "e", " ",
                      "l", "a", "s", "t", " ", "1", "2", " ", "y", "e", "a",
                      "r", "(", "s", ")", " ", "a", "g", "o">>)

C9_LengthOfCoverage ==
    op.name = "Holdings.length_of_coverage"
    => LET first == int(op.arg.holdings[1])
           last == int(op.arg.holdings[4])
       IN  /\ (first # <<>> /\ last # <<>>)
                => result = Ret(last[1] - first[1])
           /\ (first # <<>> /\ last = <<>>)
                => result = Ret(op.arg.this_year - first[1])
           /\ first = <<>> => result = Raise("IncompleteDateInformation")
           /\ (op.arg.holdings[1] = <<"1", "9">>
                 /\ op.arg.holdings[4] = <<"9", "1">>) => result.val = 72

C9_Witness ==
    /\ op.name = "Holdings.length_of_coverage"
    /\ op.arg.holdings[1] = <<"1", "9">>
    /\ op.arg.holdings[4] = <<"-">>
    /\ op.arg.this_year = 2026
    /\ result = Ret(2007)

\* the place (1-based) of a key of the mapping
Place(od, key) == IF HasKey(od, key) THEN IndexOf(od, key) ELSE 0

\* C10: the reading operations (item access, get_fields, len, the two
\* pretty-prints) leave the mapping as it is; the same read made twice in a
\* row returns the same; and the holdings pretty-print that follows an
\* assignment to one of the six holdings fields shows the assigned value.
C10_ReadsLeaveTheMapping ==
    [][IsReader(op'.name)
       => /\ kbart_data' = kbart_data
          /\ (op.name = op'.name /\ op.key = op'.key /\ op.arg = op'.arg)
               => result' = result
          /\ (/\ op'.name = "serial_holdings_pp"
              /\ IsSet(op.name)
              /\ Len(kbart_data) >= 9
              /\ Place(kbart_data, op.key) \in 4..9)
               => result' = Ret(ExpectedHoldings(
                     [holdings(kbart_data)
                        EXCEPT ![Place(kbart_data, op.key) - 3] = op.arg]))
      ]_vars

C10_Witness ==
    /\ op.name = "serial_holdings_pp"
    /\ nsets = 1
    /\ Len(kbart_data) = 15
    /\ Lookup(kbart_data, "num_first_vol_online") = S_P1M
    /\ result.val = S_2015 \o S_CommaSpace \o S_Vol \o S_P1M \o S_CommaSpace
                      \o S_Issue \o <<"2">> \o S_Dash \o S_2016
                      \o S_CommaSpace \o S_Vol \o <<"3">> \o S_CommaSpace
                      \o S_Issue \o <<"4">>

====
